---- MODULE Spec2Model ----
(***************************************************************************)
(* Model of src/dashboard.py: one Streamlit session of the Asset           *)
(* Management Dashboard.  A script run (main) is a sequence of steps: the   *)
(* upload check and load_data, the five sidebar selectors, the key          *)
(* metrics and the five tabs.  Every widget value is drawn where the        *)
(* script reads it, from the options the widget offers at that point.       *)
(*                                                                          *)
(* A cell is a pair <<kind, payload>>: kind is the Python type of the cell  *)
(* ("str", "int", "float", "ts" for a Timestamp, "nan" for a missing        *)
(* value, "nat" for a missing timestamp) and payload the token it was read  *)
(* from.  A row is [idx, cells]: idx is the pandas index label, which       *)
(* boolean-mask selection keeps.                                            *)
(*                                                                          *)
(* df is the script's variable of that name; loaded is what load_data       *)
(* returned (the cached table); filtered records df as the last selector    *)
(* left it, so that properties can compare later values of df with it; out  *)
(* is the set of parts rendered so far and shown the displayed numbers.     *)
(* Charts are rendered from df without writing it; their pixels are not     *)
(* modelled.                                                                *)
(***************************************************************************)
EXTENDS Integers, Sequences, FiniteSets, TLC

VARIABLES uploaded_file, loaded, df, filtered, sel, opts, shown, search_term,
          selected_columns, display_df, csv, out, pc

vars == <<uploaded_file, loaded, df, filtered, sel, opts, shown, search_term,
          selected_columns, display_df, csv, out, pc>>

\* Largest number of data rows of an uploaded file.
MaxRows == 2

----------------------------------------------------------------------------
(* Cells, tokens and their text forms *)

NaN == <<"nan", "">>
NaT == <<"nat", "">>
Str(s) == <<"str", s>>
All == Str("All")

IsNA(cell) == cell[1] \in {"nan", "nat"}

\* The numerals among the tokens, and the integer each denotes.
Numerals == {"10", "5", "2"}
NumVal(tok) == CASE tok = "10" -> 10 [] tok = "5" -> 5 [] tok = "2" -> 2 [] OTHER -> 0

\* The tokens that parse as a date.
DateTokens == {"2024-01-05", "2024-02-01"}

\* Python's order on str (code points): upper case before lower case.
SortedTokens == <<"10", "2", "2024-01-05", "2024-02-01", "5", "A", "Acme", "B",
                  "Deployed", "No", "R1", "Yes", "acme", "bad", "soon">>

Rank(tok) == CHOOSE i \in 1..Len(SortedTokens) : SortedTokens[i] = tok

\* The characters of a token.
Chars(tok) ==
  CASE tok = "10" -> <<"1", "0">>
    [] tok = "2" -> <<"2">>
    [] tok = "5" -> <<"5">>
    [] tok = "2024-01-05" -> <<"2", "0", "2", "4", "-", "0", "1", "-", "0", "5">>
    [] tok = "2024-02-01" -> <<"2", "0", "2", "4", "-", "0", "2", "-", "0", "1">>
    [] tok = "1970-01-01" -> <<"1", "9", "7", "0", "-", "0", "1", "-", "0", "1">>
    [] tok = "A" -> <<"A">>
    [] tok = "B" -> <<"B">>
    [] tok = "Acme" -> <<"A", "c", "m", "e">>
    [] tok = "acme" -> <<"a", "c", "m", "e">>
    [] tok = "Deployed" -> <<"D", "e", "p", "l", "o", "y", "e", "d">>
    [] tok = "No" -> <<"N", "o">>
    [] tok = "Yes" -> <<"Y", "e", "s">>
    [] tok = "R1" -> <<"R", "1">>
    [] tok = "bad" -> <<"b", "a", "d">>
    [] tok = "soon" -> <<"s", "o", "o", "n">>
    [] OTHER -> <<>>

UpperCase == <<"A", "B", "C", "D", "E", "G", "L", "M", "N", "O", "P", "R", "S", "T", "Y">>
LowerCase == <<"a", "b", "c", "d", "e", "g", "l", "m", "n", "o", "p", "r", "s", "t", "y">>

Lower(ch) ==
  IF \E i \in 1..Len(UpperCase) : UpperCase[i] = ch
  THEN LowerCase[CHOOSE i \in 1..Len(UpperCase) : UpperCase[i] = ch]
  ELSE ch

\* str(cell), as DataFrame.astype(str) renders it.
AsStr(cell) ==
  CASE cell[1] = "nan" -> <<"n", "a", "n">>
    [] cell[1] = "nat" -> <<"N", "a", "T">>
    [] cell[1] = "float" -> Chars(cell[2]) \o <<".", "0">>
    [] OTHER -> Chars(cell[2])

\* The field DataFrame.to_csv writes for a cell (a missing value is empty).
CsvField(cell) ==
  CASE IsNA(cell) -> ""
    [] cell[1] = "float" -> cell[2] \o ".0"
    [] OTHER -> cell[2]

----------------------------------------------------------------------------
(* Column operations of the dataframe library, as the script uses them *)

Range(s) == {s[i] : i \in 1..Len(s)}

Column(d, col) == [i \in 1..Len(d.rows) |-> d.rows[i].cells[col]]

\* df[col] = values: the column assigned in place, cell by cell.
SetColumn(d, col, values) ==
  [d EXCEPT !.rows = [i \in 1..Len(d.rows) |->
                        [d.rows[i] EXCEPT !.cells[col] = values[i]]]]

RECURSIVE Pick(_, _)
Pick(rows, mask) ==
  IF rows = <<>> THEN <<>>
  ELSE (IF Head(mask) THEN <<Head(rows)>> ELSE <<>>) \o Pick(Tail(rows), Tail(mask))

\* df.where(mask): every row kept, the rows whose mask is false blanked.
MaskWhere(d, mask) ==
  [d EXCEPT !.rows = [i \in 1..Len(d.rows) |->
     IF mask[i] THEN d.rows[i]
     ELSE [d.rows[i] EXCEPT !.cells = [c \in DOMAIN d.rows[i].cells |-> NaN]]]]

\* df[mask]: the rows whose mask is true, in order, index labels kept.
MaskSelect(d, mask) == [d EXCEPT !.rows = Pick(d.rows, mask)]

\* pd.read_csv's type inference for one column of text fields.
ReadColumn(toks) ==
  LET n == Len(toks)
      allInt == \A i \in 1..n : toks[i] \in Numerals
      allNum == \A i \in 1..n : toks[i] \in Numerals \cup {""}
  IN [i \in 1..n |->
        IF allInt THEN <<"int", toks[i]>>
        ELSE IF toks[i] = "" THEN NaN
        ELSE IF allNum THEN <<"float", toks[i]>>
        ELSE Str(toks[i])]

\* pd.to_datetime(series, errors='coerce')
ToDatetime(cells) ==
  [i \in 1..Len(cells) |->
     CASE cells[i][1] = "ts" -> cells[i]
       [] cells[i][1] = "str" /\ cells[i][2] \in DateTokens -> <<"ts", cells[i][2]>>
       [] cells[i][1] \in {"int", "float"} -> <<"ts", "1970-01-01">>
       [] OTHER -> NaT]

\* pd.to_numeric(series, errors='coerce')
ToNumeric(cells) ==
  LET n == Len(cells)
      parses(c) == \/ c[1] \in {"int", "float"}
                   \/ c[1] = "str" /\ c[2] \in Numerals
      allInt == \A i \in 1..n : cells[i][1] = "int" \/ (cells[i][1] = "str" /\ cells[i][2] \in Numerals)
  IN [i \in 1..n |->
        IF ~parses(cells[i]) THEN NaN
        ELSE IF allInt THEN <<"int", cells[i][2]>>
        ELSE <<"float", cells[i][2]>>]

\* series.dropna().unique().tolist() then sorted(): ascending, no repeats.
SortedUnique(cells) ==
  LET S == {cells[i] : i \in 1..Len(cells)} \ {NaN, NaT}
      Ordered == SelectSeq(SortedTokens, LAMBDA t : \E c \in S : c[2] = t)
  IN [i \in 1..Len(Ordered) |-> CHOOSE c \in S : c[2] = Ordered[i]]

RECURSIVE SumSeq(_)
SumSeq(s) == IF s = <<>> THEN 0 ELSE Head(s) + SumSeq(Tail(s))

\* series.sum(): missing values are skipped.
SeriesSum(cells) ==
  SumSeq([i \in 1..Len(cells) |-> IF IsNA(cells[i]) THEN 0 ELSE NumVal(cells[i][2])])

\* df.dropna(subset=[col])
DropNA(d, col) == MaskSelect(d, [i \in 1..Len(d.rows) |-> ~IsNA(d.rows[i].cells[col])])

\* groupby(col, dropna=False).size(): the missing values form a group too.
GroupSizeKeepNA(d, col) ==
  LET keys == {d.rows[i].cells[col] : i \in 1..Len(d.rows)}
  IN [k \in keys |-> Cardinality({i \in 1..Len(d.rows) : d.rows[i].cells[col] = k})]

\* df.groupby(col).size(): one count per non-missing value of the column.
GroupSize(d, col) ==
  LET keys == {d.rows[i].cells[col] : i \in 1..Len(d.rows)} \ {NaN, NaT}
  IN [k \in keys |-> Cardinality({i \in 1..Len(d.rows) : d.rows[i].cells[col] = k})]

----------------------------------------------------------------------------
(* Uploaded files *)

date_columns == {"Date Added", "Last Updated", "Acquisition Date",
                 "Warranty Start Date", "Warranty End Date",
                 "Lease Start Date", "Lease End Date", "Check Out Date"}

NoFile == [present |-> FALSE, parsable |-> FALSE, columns |-> <<>>, rows |-> <<>>]
Unparsable == [present |-> TRUE, parsable |-> FALSE, columns |-> <<>>, rows |-> <<>>]
NoFrame == [columns |-> <<>>, rows |-> <<>>]
NoCsv == [header |-> <<>>, lines |-> <<>>]

\* The text fields a column of an explored file draws from ("" is an empty field).
Fields(col) ==
  CASE col = "Company" -> {"Acme", "acme"}
    [] col = "Building" -> {"A", "B", ""}
    [] col = "Room Name" -> {"R1", ""}
    [] col = "Status" -> {"Deployed", ""}
    [] col = "Active" -> {"Yes", "No", ""}
    [] col = "Cost" -> {"10", "bad"}
    [] col = "Depreciated Value" -> {"5", "bad"}
    [] col = "Amount Depreciated" -> {"2", "bad"}
    [] col = "Date Added" -> {"2024-01-05", "soon"}
    [] col = "Last Updated" -> {"2024-02-01", ""}
    [] OTHER -> {""}

AllFields == {"Acme", "acme", "A", "B", "R1", "Deployed", "Yes", "No", "10", "bad",
              "5", "2", "2024-01-05", "soon", "2024-02-01", ""}

\* The headers of the explored files.  A row is a record of fields; a lone empty
\* field is a quoted one, so no line of a file is blank.
Headers ==
  { <<"Company">>, <<"Building">>, <<"Room Name">>, <<"Status">>, <<"Active">>,
    <<"Company", "Building">>, <<"Building", "Active">>, <<"Status", "Active">>,
    <<"Cost">>, <<"Depreciated Value">>, <<"Amount Depreciated">>,
    <<"Cost", "Depreciated Value">>, <<"Cost", "Amount Depreciated">>,
    <<"Depreciated Value", "Amount Depreciated">>,
    <<"Cost", "Depreciated Value", "Amount Depreciated">>,
    <<"Building", "Cost">>, <<"Date Added">>, <<"Date Added", "Last Updated">>,
    <<"Date Added", "Cost">> }

RawRows(header) ==
  {r \in [Range(header) -> AllFields] : \A c \in Range(header) : r[c] \in Fields(c)}

Files ==
  {Unparsable} \cup
  UNION { { [present |-> TRUE, parsable |-> TRUE, columns |-> h, rows |-> rs] :
              rs \in UNION {[1..n -> RawRows(h)] : n \in 0..MaxRows} } : h \in Headers }

----------------------------------------------------------------------------
(* load_data *)

\* pd.read_csv: every column typed, rows labelled 0, 1, ...
ReadCsv(file) ==
  LET n == Len(file.rows)
      col(c) == ReadColumn([i \in 1..n |-> file.rows[i][c]])
  IN [columns |-> file.columns,
      rows |-> [i \in 1..n |->
                  [idx |-> i - 1, cells |-> [c \in Range(file.columns) |-> col(c)[i]]]]]

RECURSIVE ConvertDates(_, _)
ConvertDates(d, cols) ==
  IF cols = {} THEN d
  ELSE LET c == CHOOSE x \in cols : TRUE
       IN ConvertDates(SetColumn(d, c, ToDatetime(Column(d, c))), cols \ {c})

\* load_data's result for a parsable file (None for an unparsable one).
load_data(file) == ConvertDates(ReadCsv(file), Range(file.columns) \cap date_columns)

\* A check that only looks for a missing header.
EmptyColumnsOnly(d) == Len(d.columns) = 0

\* df.empty: no row or no column.
Empty(d) == Len(d.rows) = 0 \/ Len(d.columns) = 0

----------------------------------------------------------------------------
NoSel == [Company |-> All, Building |-> All, Room |-> All, Status |-> All, Active |-> All]
NoOpts == [Company |-> <<>>, Building |-> <<>>, Room |-> <<>>, Status |-> <<>>, Active |-> <<>>]
\* Nothing displayed yet: -1 stands for a metric not shown.
NoShown == [total_assets |-> -1, unique_buildings |-> -1, unique_rooms |-> -1,
            active_count |-> -1, building_df |-> <<>>, daily_additions |-> <<>>,
            daily_updates |-> <<>>, totals |-> <<>>]

Fresh(file) ==
  /\ uploaded_file' = file
  /\ loaded' = NoFrame
  /\ df' = NoFrame
  /\ filtered' = NoFrame
  /\ sel' = NoSel
  /\ opts' = NoOpts
  /\ shown' = NoShown
  /\ search_term' = <<>>
  /\ selected_columns' = <<>>
  /\ display_df' = NoFrame
  /\ csv' = NoCsv
  /\ out' = {}
  /\ pc' = "start"

Init ==
  /\ uploaded_file = NoFile
  /\ loaded = NoFrame
  /\ df = NoFrame
  /\ filtered = NoFrame
  /\ sel = NoSel
  /\ opts = NoOpts
  /\ shown = NoShown
  /\ search_term = <<>>
  /\ selected_columns = <<>>
  /\ display_df = NoFrame
  /\ csv = NoCsv
  /\ out = {}
  /\ pc = "start"

\* The user picks a file in the uploader; the script runs again from the top.
\* (Replacing a file starts the same run as a first upload of it does.)
Upload ==
  /\ pc = "done"
  /\ ~uploaded_file.present
  /\ \E f \in Files : Fresh(f)

\* Lines 56-65 and 400-410: the uploader, load_data and the emptiness check.
LoadAndCheck ==
  /\ pc = "start"
  /\ IF ~uploaded_file.present
     THEN /\ out' = {"placeholder"}
          /\ pc' = "done"
          /\ UNCHANGED <<loaded, df>>
     ELSE IF ~uploaded_file.parsable
     THEN /\ out' = {"load_error", "error"}
          /\ pc' = "done"
          /\ UNCHANGED <<loaded, df>>
     ELSE IF Empty(load_data(uploaded_file))
     THEN /\ out' = {"error"}
          /\ pc' = "done"
          /\ loaded' = load_data(uploaded_file)
          /\ df' = load_data(uploaded_file)
     ELSE /\ out' = {"filters"}
          /\ pc' = "company"
          /\ loaded' = load_data(uploaded_file)
          /\ df' = load_data(uploaded_file)
  /\ UNCHANGED <<uploaded_file, filtered, sel, opts, shown, search_term,
                 selected_columns, display_df, csv>>

----------------------------------------------------------------------------
(* Sidebar filters, lines 69-101 *)

Has(d, col) == col \in Range(d.columns)

\* Equality that ignores letter case.
EqualsIgnoreCase(cell, v) ==
  /\ ~IsNA(cell)
  /\ [i \in 1..Len(AsStr(cell)) |-> Lower(AsStr(cell)[i])]
       = [i \in 1..Len(AsStr(v)) |-> Lower(AsStr(v)[i])]

\* series == value, for one cell: a missing value equals nothing.
Equals(cell, v) == ~IsNA(cell) /\ cell = v

\* The values in descending order.
OptionsDescending(d, col) ==
  LET up == SortedUnique(Column(d, col))
  IN <<All>> \o [i \in 1..Len(up) |-> up[Len(up) + 1 - i]]

\* The options derived from the table as loaded, whatever was selected before.
OptionsOfLoaded(d, col) == <<All>> \o SortedUnique(Column(loaded, col))

\* ['All'] + sorted(df[col].dropna().unique().tolist())
Options(d, col) == <<All>> \o SortedUnique(Column(d, col))

\* The fixed options of the Active selector.
ActiveOptions == <<All, Str("Yes"), Str("No")>>

\* if selected != 'All': df = df[df[col] == selected]
ApplySelection(d, col, v) ==
  IF v # All
  THEN MaskSelect(d, [i \in 1..Len(d.rows) |-> Equals(d.rows[i].cells[col], v)])
  ELSE d

\* One selector: offered only when its column is present.
Selector(col, key, options, next) ==
  /\ IF Has(df, col)
     THEN \E v \in Range(options) :
            /\ sel' = [sel EXCEPT ![key] = v]
            /\ opts' = [opts EXCEPT ![key] = options]
            /\ df' = ApplySelection(df, col, v)
            /\ filtered' = IF next = "metrics" THEN ApplySelection(df, col, v) ELSE filtered
            /\ out' = out \cup {key}
     ELSE /\ UNCHANGED <<sel, opts, df, out>>
          /\ filtered' = IF next = "metrics" THEN df ELSE filtered
  /\ pc' = next
  /\ UNCHANGED <<uploaded_file, loaded, shown, search_term, selected_columns,
                 display_df, csv>>

CompanyFilter ==
  /\ pc = "company"
  /\ Selector("Company", "Company", Options(df, "Company"), "building")

BuildingFilter ==
  /\ pc = "building"
  /\ Selector("Building", "Building", Options(df, "Building"), "room")

RoomFilter ==
  /\ pc = "room"
  /\ Selector("Room Name", "Room", Options(df, "Room Name"), "status")

StatusFilter ==
  /\ pc = "status"
  /\ Selector("Status", "Status", Options(df, "Status"), "active")

\* The last selector; what it leaves is the Filtered View of this run.
ActiveFilter ==
  /\ pc = "active"
  /\ Selector("Active", "Active", ActiveOptions, "metrics")

----------------------------------------------------------------------------
(* Key metrics and the first three tabs, lines 106-289 *)

\* series.nunique(): the number of distinct non-missing values.
NUnique(cells) == Cardinality(Range(cells) \ {NaN, NaT})

\* Lines 106-132; a metric whose column is absent shows "N/A" (-1 here).
KeyMetrics ==
  /\ pc = "metrics"
  /\ shown' = [shown EXCEPT
       !.total_assets = Len(df.rows),
       !.unique_buildings = IF Has(df, "Building") THEN NUnique(Column(df, "Building")) ELSE -1,
       !.unique_rooms = IF Has(df, "Room Name") THEN NUnique(Column(df, "Room Name")) ELSE -1,
       !.active_count = IF Has(df, "Active")
                        THEN Len(ApplySelection(df, "Active", Str("Yes")).rows) ELSE -1]
  /\ out' = out \cup {"metrics"}
  /\ pc' = "overview"
  /\ UNCHANGED <<uploaded_file, loaded, df, filtered, sel, opts, search_term,
                 selected_columns, display_df, csv>>

\* Lines 145-188: three charts of value counts, none of which writes df.
OverviewTab ==
  /\ pc = "overview"
  /\ out' = out \cup {"overview"}
  /\ pc' = "location"
  /\ UNCHANGED <<uploaded_file, loaded, df, filtered, sel, opts, shown, search_term,
                 selected_columns, display_df, csv>>

\* Lines 190-233: building_df is the treemap's table of counts per Building.
LocationTab ==
  /\ pc = "location"
  /\ shown' = [shown EXCEPT !.building_df =
                  IF Has(df, "Building") THEN GroupSize(df, "Building") ELSE <<>>]
  /\ out' = out \cup {"location"}
  /\ pc' = "timeline"
  /\ UNCHANGED <<uploaded_file, loaded, df, filtered, sel, opts, search_term,
                 selected_columns, display_df, csv>>

\* df[col] = pd.to_datetime(df[col], errors='coerce') when the column is present.
CoerceDate(d, col) ==
  IF Has(d, col) THEN SetColumn(d, col, ToDatetime(Column(d, col))) ELSE d

\* The daily counts charted for a date column (none when no date parses).
DailyCounts(d, col) ==
  IF Has(d, col) /\ ~Empty(DropNA(d, col)) THEN GroupSize(DropNA(d, col), col) ELSE <<>>

\* Lines 235-289.
TimelineTab ==
  /\ pc = "timeline"
  /\ LET d1 == CoerceDate(df, "Date Added")
         d2 == CoerceDate(d1, "Last Updated")
     IN /\ df' = d2
        /\ shown' = [shown EXCEPT !.daily_additions = DailyCounts(d1, "Date Added"),
                                  !.daily_updates = DailyCounts(d2, "Last Updated")]
  /\ out' = out \cup {"timeline"}
  /\ pc' = "financial"
  /\ UNCHANGED <<uploaded_file, loaded, filtered, sel, opts, search_term,
                 selected_columns, display_df, csv>>

----------------------------------------------------------------------------
(* Financial tab, lines 291-347 *)

\* df[col] = pd.to_numeric(df[col], errors='coerce')
CoerceNumeric(d, col) == SetColumn(d, col, ToNumeric(Column(d, col)))

\* Lines 298-300: Cost is coerced whenever it is present.
AfterCost(d) == IF Has(d, "Cost") THEN CoerceNumeric(d, "Cost") ELSE d

\* Lines 302-309: the Cost total is shown when some Cost parses.
CostShown(d) == Has(d, "Cost") /\ ~Empty(DropNA(AfterCost(d), "Cost"))

\* Lines 323-325.
AfterDep(d) ==
  IF Has(d, "Depreciated Value") THEN CoerceNumeric(d, "Depreciated Value") ELSE d

\* Lines 327-329.
DepShown(d) ==
  Has(d, "Depreciated Value") /\ ~Empty(DropNA(AfterDep(d), "Depreciated Value"))

\* Lines 327 and 331: Amount Depreciated is read inside the Depreciated Value branch.
AmountShown(d) == DepShown(d) /\ Has(d, "Amount Depreciated")

\* Lines 331-332.
AfterAmount(d) ==
  IF AmountShown(d) THEN CoerceNumeric(d, "Amount Depreciated") ELSE d

\* The totals the tab displays, as <<column, total>> pairs (the mean and median
\* of Cost are shown beside its total, under the same condition).
Totals(d) ==
  (IF CostShown(d) THEN <<(<<"Cost", SeriesSum(Column(AfterCost(d), "Cost"))>>)>> ELSE <<>>)
  \o (IF DepShown(d)
      THEN <<(<<"Depreciated Value", SeriesSum(Column(AfterDep(d), "Depreciated Value"))>>)>>
      ELSE <<>>)
  \o (IF AmountShown(d)
      THEN <<(<<"Amount Depreciated", SeriesSum(Column(AfterAmount(d), "Amount Depreciated"))>>)>>
      ELSE <<>>)

FinancialTab ==
  /\ pc = "financial"
  /\ df' = AfterAmount(AfterDep(AfterCost(df)))
  /\ shown' = [shown EXCEPT !.totals = Totals(df)]
  /\ out' = out \cup {"financial"} \cup
       (IF \E c \in {"Cost", "Depreciated Value", "Amount Depreciated", "Scrap Value"} :
             Has(df, c)
        THEN {"financial_summary"} ELSE {})
  /\ pc' = "datatable"
  /\ UNCHANGED <<uploaded_file, loaded, filtered, sel, opts, search_term,
                 selected_columns, display_df, csv>>

----------------------------------------------------------------------------
(* Data Table tab and footer, lines 349-399 *)

\* The search terms explored, as character sequences; <<>> is the empty box.
Terms == { <<>>, <<"a">>, <<"B", "A", "D">>, <<".">>, <<"1">>, <<"(">> }

\* re.compile(term) raises on an unbalanced parenthesis.
PatternError(term) == \E i \in 1..Len(term) : term[i] = "("

\* Plain substring test, ignoring case.
ContainsLiteral(text, term) ==
  \E k \in 0..(Len(text) - Len(term)) :
    \A j \in 1..Len(term) : Lower(term[j]) = Lower(text[k + j])

\* series.str.contains(term, case=False): term is a regular expression, searched
\* anywhere in the text; "." matches any character.
StrContains(text, term) ==
  \E k \in 0..(Len(text) - Len(term)) :
    \A j \in 1..Len(term) : term[j] = "." \/ Lower(term[j]) = Lower(text[k + j])

\* df.astype(str).apply(lambda x: x.str.contains(...)).any(axis=1)
SearchMask(d, term) ==
  [i \in 1..Len(d.rows) |->
     \E c \in Range(d.columns) : StrContains(AsStr(d.rows[i].cells[c]), term)]

\* Lines 355-359.
Searched(d, term) == IF term # <<>> THEN MaskSelect(d, SearchMask(d, term)) ELSE d

\* The choices of the column multiselect: any columns, here in table order.
ColumnChoices(d) == {Pick(d.columns, m) : m \in [1..Len(d.columns) -> BOOLEAN]}

\* display_df[selected_columns]
Project(d, cols) ==
  [columns |-> cols,
   rows |-> [i \in 1..Len(d.rows) |->
               [idx |-> d.rows[i].idx, cells |-> [c \in Range(cols) |-> d.rows[i].cells[c]]]]]

\* The projection taken whatever is selected.
NarrowAlways(d, cols) == Project(d, cols)

\* Lines 372-373: an empty selection leaves every column.
Narrow(d, cols) == IF cols # <<>> THEN Project(d, cols) ELSE d

\* display_df.to_csv(index=False): the header, then one line of fields per row.
ToCsv(d) ==
  [header |-> d.columns,
   lines |-> [i \in 1..Len(d.rows) |->
                [j \in 1..Len(d.columns) |-> CsvField(d.rows[i].cells[d.columns[j]])]]]

DataTableTab ==
  /\ pc = "datatable"
  /\ \E term \in Terms :
       /\ search_term' = term
       /\ IF PatternError(term)
          THEN /\ out' = out \cup {"datatable", "exception"}
               /\ UNCHANGED <<selected_columns, display_df, csv>>
          ELSE \E cols \in ColumnChoices(df) :
                 /\ selected_columns' = cols
                 /\ display_df' = Narrow(Searched(df, term), cols)
                 /\ csv' = ToCsv(Narrow(Searched(df, term), cols))
                 /\ out' = out \cup {"datatable", "table", "download", "footer"}
  /\ pc' = "done"
  /\ UNCHANGED <<uploaded_file, loaded, df, filtered, sel, opts, shown>>

\* Any interaction reruns the script on the same (cached) file.
Rerun ==
  /\ pc = "done"
  /\ uploaded_file.present
  /\ Fresh(uploaded_file)

----------------------------------------------------------------------------
(* Properties *)

\* The recognized selector columns with the key of their selector, in script order.
SelectorColumns ==
  <<(<<"Company", "Company">>), (<<"Building", "Building">>), (<<"Room Name", "Room">>),
    (<<"Status", "Status">>), (<<"Active", "Active">>)>>

\* A file that loads into a table with at least one row.
FileOk == uploaded_file.present /\ uploaded_file.parsable /\ Len(uploaded_file.rows) > 0

\* The script is between its first selector and the Timeline tab: df is the table
\* narrowed by the selectors run so far.
Filtering == pc \in {"company", "building", "room", "status", "active"}

\* All five selectors have run in this script run: filtered is the Filtered View.
ViewReady ==
  \/ pc \in {"metrics", "overview", "location", "timeline", "financial", "datatable"}
  \/ pc = "done" /\ "metrics" \in out

\* Row r of the loaded table satisfies the selection of the first n selectors.
Satisfies(r, n) ==
  \A k \in 1..n :
    LET col == SelectorColumns[k][1]
        key == SelectorColumns[k][2]
    IN (Has(loaded, col) /\ sel[key] # All) => r.cells[col] = sel[key]

RowsSatisfying(n) == SelectSeq(loaded.rows, LAMBDA r : Satisfies(r, n))

\* C1: the table narrowed by the selectors is exactly the loaded rows that satisfy
\* every selection other than 'All' at once, in every row of the result the
\* selected column equals the selection, and a selector whose column is absent
\* is skipped (it selects nothing and offers nothing).
C1_FilteredViewIsConjunction ==
  /\ Filtering => df.rows = RowsSatisfying(5) /\ df.columns = loaded.columns
  /\ ViewReady =>
       /\ filtered.rows = RowsSatisfying(5)
       /\ \A k \in 1..5 :
            LET col == SelectorColumns[k][1]
                key == SelectorColumns[k][2]
            IN /\ (Has(loaded, col) /\ sel[key] # All) =>
                    \A i \in 1..Len(filtered.rows) : filtered.rows[i].cells[col] = sel[key]
               /\ ~Has(loaded, col) => sel[key] = All /\ key \notin out

\* C1 witness: two selections other than 'All' keep some rows and drop others.
C1_TwoSelectionsNarrow ==
  /\ pc = "metrics"
  /\ Cardinality({k \in 1..5 : sel[SelectorColumns[k][2]] # All}) = 2
  /\ Len(filtered.rows) > 0
  /\ Len(filtered.rows) < Len(loaded.rows)

\* C4: the view is a row-wise subset of the loaded table with the same columns:
\* its rows are rows of the loaded table, in increasing index order, so none
\* is repeated and none is made up.
C4_ViewIsSubsetOfLoaded ==
  LET SubTable(d) ==
        /\ d.columns = loaded.columns
        /\ \A i \in 1..Len(d.rows) : d.rows[i] \in Range(loaded.rows)
        /\ \A i, j \in 1..Len(d.rows) : i < j => d.rows[i].idx < d.rows[j].idx
  IN /\ Filtering => SubTable(df)
     /\ ViewReady => SubTable(filtered)

\* C4 witness: a rerun after a finished run narrowed the table to a proper part.
C4_ProperSubsetView ==
  /\ pc = "overview"
  /\ Len(filtered.rows) = 1
  /\ Len(loaded.rows) = 2

\* What the dashboard proper consists of.
DashboardParts == {"filters", "Company", "Building", "Room", "Status", "Active", "metrics",
                   "overview", "location", "timeline", "financial", "financial_summary",
                   "datatable", "table", "download", "footer"}

\* C5: dashboard parts are rendered only for a file that loads with at least one
\* row, and then all of them are (selector header, metrics, five tabs); a file
\* that fails to load or has no row gives an error and no dashboard part; no
\* file gives the placeholder alone.
C5_DashboardIffLoaded ==
  /\ out \cap DashboardParts # {} => FileOk
  /\ pc = "done" =>
       IF FileOk
       THEN /\ {"filters", "metrics", "overview", "location", "timeline", "financial",
                "datatable"} \subseteq out
            /\ "error" \notin out /\ "placeholder" \notin out
       ELSE IF uploaded_file.present
       THEN "error" \in out /\ out \cap DashboardParts = {} /\ "placeholder" \notin out
       ELSE out = {"placeholder"}

\* C5 witness: a file with a header and no row ended in the error message.
C5_EmptyFileRejected ==
  /\ pc = "done"
  /\ uploaded_file.parsable
  /\ Len(uploaded_file.rows) = 0
  /\ "error" \in out

\* The distinct non-missing values of column col among rows.
ValuesIn(rows, col) == {rows[i].cells[col] : i \in 1..Len(rows)} \ {NaN, NaT}

\* options is 'All' followed by exactly the values, in ascending order.
IsAllThenSorted(options, values) ==
  /\ Len(options) = Cardinality(values) + 1
  /\ options[1] = All
  /\ {options[i] : i \in 2..Len(options)} = values
  /\ \A i, j \in 2..Len(options) : i < j => Rank(options[i][2]) < Rank(options[j][2])

\* C8 as stated: every selector whose column is present, Active included, offers
\* 'All' and then the sorted distinct non-missing values of its column in the
\* table.
C8_OptionsAreColumnValues ==
  ViewReady =>
    \A k \in 1..5 :
      LET col == SelectorColumns[k][1]
          key == SelectorColumns[k][2]
      IN Has(loaded, col) => IsAllThenSorted(opts[key], ValuesIn(loaded.rows, col))

\* C8 amended: Company, Building, Room Name and Status each offer 'All' and then
\* the sorted distinct non-missing values of their column among the rows the
\* preceding selectors left; Active offers 'All', 'Yes', 'No' whatever the
\* column holds; a selector whose column is absent offers nothing.
C8_OptionsAreNarrowedColumnValues ==
  ViewReady =>
    /\ \A k \in 1..4 :
         LET col == SelectorColumns[k][1]
             key == SelectorColumns[k][2]
         IN IF Has(loaded, col)
            THEN IsAllThenSorted(opts[key], ValuesIn(RowsSatisfying(k - 1), col))
            ELSE opts[key] = <<>>
    /\ opts.Active = IF Has(loaded, "Active") THEN <<All, Str("Yes"), Str("No")>> ELSE <<>>

\* C8 witness: the Company selection removed a Building from the Building options.
C8_BuildingOptionsNarrowed ==
  /\ pc = "metrics"
  /\ Has(loaded, "Company") /\ Has(loaded, "Building")
  /\ sel.Company # All
  /\ Len(opts.Building) = 2
  /\ Cardinality(ValuesIn(loaded.rows, "Building")) = 2

\* C10: while Company, Building, Room Name and Status are applied the table never
\* becomes empty; an empty Filtered View comes only from an Active selection of
\* 'Yes' or 'No' that no remaining row has.
C10_OnlyActiveEmptiesView ==
  /\ Filtering => Len(df.rows) > 0
  /\ (ViewReady /\ Len(filtered.rows) = 0) =>
       /\ sel.Active \in {Str("Yes"), Str("No")}
       /\ Len(RowsSatisfying(4)) > 0
       /\ \A i \in 1..Len(RowsSatisfying(4)) : RowsSatisfying(4)[i].cells["Active"] # sel.Active

\* C10 witness: the Filtered View is empty.
C10_EmptyViewReached ==
  /\ pc = "metrics"
  /\ Len(filtered.rows) = 0
  /\ Len(loaded.rows) > 0

RECURSIVE SumCounts(_)
SumCounts(f) ==
  IF DOMAIN f = {} THEN 0
  ELSE LET k == CHOOSE x \in DOMAIN f : TRUE
       IN f[k] + SumCounts([x \in DOMAIN f \ {k} |-> f[x]])

LocationShown ==
  \/ pc \in {"timeline", "financial", "datatable"}
  \/ pc = "done" /\ "location" \in out

\* The rows of the Filtered View whose Building is missing.
MissingBuilding == {i \in 1..Len(filtered.rows) : IsNA(filtered.rows[i].cells["Building"])}

\* C7 as stated: the Location panel's counts per Building add up to Total Assets.
C7_BuildingCountsSumToTotal ==
  (LocationShown /\ Has(loaded, "Building")) =>
     SumCounts(shown.building_df) = shown.total_assets

\* C7 amended: the counts per Building add up to the number of rows of the
\* Filtered View whose Building is not missing, which is Total Assets less the
\* rows with a missing Building.
C7_BuildingCountsSumToNonMissing ==
  (LocationShown /\ Has(loaded, "Building")) =>
     /\ shown.total_assets = Len(filtered.rows)
     /\ SumCounts(shown.building_df) = shown.total_assets - Cardinality(MissingBuilding)
     /\ \A b \in DOMAIN shown.building_df :
          shown.building_df[b] =
            Cardinality({i \in 1..Len(filtered.rows) : filtered.rows[i].cells["Building"] = b})

\* C7 witness: a view with a missing Building beside a present one was counted.
C7_MissingBuildingCounted ==
  /\ pc = "timeline"
  /\ Has(loaded, "Building")
  /\ MissingBuilding # {}
  /\ DOMAIN shown.building_df # {}

FinancialShown ==
  \/ pc = "datatable"
  \/ pc = "done" /\ "financial" \in out

\* A cell of the Filtered View that parses as a number.
Parses(cell) == cell[1] \in {"int", "float"} \/ (cell[1] = "str" /\ cell[2] \in Numerals)

\* The total of the parseable cells of column col of the Filtered View.
ParseableTotal(col) ==
  SumSeq([i \in 1..Len(filtered.rows) |->
            IF Parses(filtered.rows[i].cells[col])
            THEN NumVal(filtered.rows[i].cells[col][2]) ELSE 0])

SomeParses(col) == \E i \in 1..Len(filtered.rows) : Parses(filtered.rows[i].cells[col])

TotalDisplayed(col) ==
  \E i \in 1..Len(shown.totals) : shown.totals[i] = <<col, ParseableTotal(col)>>

\* C9: each of Cost, Depreciated Value and Amount Depreciated that is present has
\* its total over the parseable cells displayed, whatever the other two columns
\* are; Amount Depreciated whenever its column is present.
C9_EachTotalDisplayed ==
  FinancialShown =>
    /\ (Has(filtered, "Cost") /\ SomeParses("Cost")) => TotalDisplayed("Cost")
    /\ (Has(filtered, "Depreciated Value") /\ SomeParses("Depreciated Value"))
         => TotalDisplayed("Depreciated Value")
    /\ Has(filtered, "Amount Depreciated") => TotalDisplayed("Amount Depreciated")

\* C6: the table the Data Table tab reads holds the cell values of the Filtered
\* View the sidebar filters produced.
C6_PanelsLeaveViewUntouched ==
  (pc = "datatable" \/ (pc = "done" /\ "datatable" \in out)) => df = filtered

\* The rows of d, by index label.
Labels(d) == {d.rows[i].idx : i \in 1..Len(d.rows)}

\* C3: with a non-empty search term the Data Table retains a row of the Filtered
\* View exactly when the text of one of its cells contains the term, letter
\* case aside.
C3_SearchIsSubstringMatch ==
  (pc = "done" /\ "datatable" \in out /\ search_term # <<>>) =>
     /\ "table" \in out
     /\ \A i \in 1..Len(filtered.rows) :
          filtered.rows[i].idx \in Labels(display_df)
            <=> \E c \in Range(filtered.columns) :
                  ContainsLiteral(AsStr(filtered.rows[i].cells[c]), search_term)

Exported == pc = "done" /\ "download" \in out

\* The rows the tab's search keeps, by index label (every row for an empty term).
SearchKept ==
  {df.rows[i].idx : i \in
     {i \in 1..Len(df.rows) :
        search_term = <<>> \/
        \E c \in Range(df.columns) : StrContains(AsStr(df.rows[i].cells[c]), search_term)}}

\* The exported lines are the displayed rows, one line each, a field per column.
LinesMatchDisplay ==
  /\ Len(csv.lines) = Len(display_df.rows)
  /\ \A i \in 1..Len(csv.lines) :
       /\ Len(csv.lines[i]) = Len(csv.header)
       /\ \A j \in 1..Len(csv.header) :
            csv.lines[i][j] = CsvField(display_df.rows[i].cells[csv.header[j]])

\* C2 as stated: the exported columns are exactly the selected ones, the empty
\* selection included, and the exported rows exactly those the filters and the
\* search keep.
C2_ExportIsSelection ==
  Exported =>
    /\ csv.header = selected_columns
    /\ Labels(display_df) = SearchKept
    /\ LinesMatchDisplay

\* C2 amended: the exported columns are exactly the selected ones when at least one
\* is selected and every column of the table when none is; the exported rows
\* are exactly those the filters and the search keep.
C2_ExportIsSelectionOrAllColumns ==
  Exported =>
    /\ csv.header = IF selected_columns # <<>> THEN selected_columns ELSE loaded.columns
    /\ Labels(display_df) = SearchKept
    /\ SearchKept \subseteq Labels(filtered)
    /\ LinesMatchDisplay

\* C2 witness: an export with no column selected and a search that drops a row.
C2_ExportWithNothingSelected ==
  /\ Exported
  /\ selected_columns = <<>>
  /\ search_term # <<>>
  /\ Len(csv.lines) = 1
  /\ Len(filtered.rows) = 2

----------------------------------------------------------------------------
Next ==
  \/ Upload
  \/ LoadAndCheck
  \/ CompanyFilter
  \/ BuildingFilter
  \/ RoomFilter
  \/ StatusFilter
  \/ ActiveFilter
  \/ KeyMetrics
  \/ OverviewTab
  \/ LocationTab
  \/ TimelineTab
  \/ FinancialTab
  \/ DataTableTab
  \/ Rerun

Spec == Init /\ [][Next]_vars
====
